---- MODULE Spec2Model ----
(***************************************************************************)
(* Ballon d'Or ranking pipeline (src/scikitlearn.py): count_items,         *)
(* find_column, load_and_prepare, compute_scores and the index route.      *)
(*                                                                         *)
(* Text is a sequence of one-character strings, so that trimming,          *)
(* lower-casing, splitting and substring search are computed and not       *)
(* assumed.  The em dash and the en dash are the atoms "emdash" and        *)
(* "endash".  A value of a table cell is a tagged record: NaN, Str(text)   *)
(* or Num(n); Python's None is the record None.  Numbers are fixed point   *)
(* with DecimalPlaces fractional digits (8.5 is 85 when DecimalPlaces is   *)
(* 1); floating-point rounding is not modelled.                            *)
(***************************************************************************)
EXTENDS Integers, Sequences, FiniteSets, TLC

VARIABLES
    pc,              \* position of the run
    text,            \* count_items: the argument
    count,           \* count_items: the value returned
    columns,         \* find_column: df.columns (None when df is None)
    candidates,      \* find_column: the candidate names
    found,           \* find_column: the value returned
    shortlist_df,    \* the shortlist table as read_csv returns it
    winners_df,      \* the winners table as read_csv returns it
    df,              \* load_and_prepare: the derived shortlist copy
    detected,        \* load_and_prepare: the diagnostic column mapping
    top5_only,       \* compute_scores: the league filter flag
    scored,          \* compute_scores: df after the filter, with Final_Score
    indexer,         \* compute_scores: the order sort_values chose
    df_sorted,       \* compute_scores: the ranking returned
    raised,          \* the exception raised, None when none was
    page             \* index: what is rendered

vars == <<pc, text, count, columns, candidates, found, shortlist_df, winners_df,
          df, detected, top5_only, scored, indexer, df_sorted, raised, page>>

(***************************************************************************)
(* Bounds of the model.                                                    *)
(***************************************************************************)
MaxPieces == 3       \* count_items: pieces concatenated into an argument
MaxColumns == 2      \* find_column: headers of the table
MaxCandidates == 2   \* find_column: candidate names
MaxRows == 2         \* pipeline: rows of the shortlist
DecimalPlaces == 1   \* fractional digits of the fixed-point numbers

(***************************************************************************)
(* Values.                                                                 *)
(***************************************************************************)
None == [t |-> "none"]
NaN == [t |-> "nan"]
Str(s) == [t |-> "str", s |-> s]
Num(n) == [t |-> "num", n |-> n]

\* pd.isna(x) for a scalar
isna(x) == x.t \in {"nan", "none"}

(***************************************************************************)
(* Text primitives (Python str methods).                                   *)
(***************************************************************************)
Upper == <<"A", "B", "C", "D", "E", "F", "G", "H", "I", "J", "K", "L", "M",
           "N", "O", "P", "Q", "R", "S", "T", "U", "V", "W", "X", "Y", "Z">>
LowerCase == <<"a", "b", "c", "d", "e", "f", "g", "h", "i", "j", "k", "l", "m",
               "n", "o", "p", "q", "r", "s", "t", "u", "v", "w", "x", "y", "z">>

\* the lower-case letter of each upper-case letter
LowerOf == [c \in {Upper[i] : i \in DOMAIN Upper} |->
               LowerCase[CHOOSE i \in DOMAIN Upper : Upper[i] = c]]

LowerChar(c) == IF c \in DOMAIN LowerOf THEN LowerOf[c] ELSE c

\* str.lower()
lower(s) == [i \in 1..Len(s) |-> LowerChar(s[i])]

Whitespace == {" "}

\* str.lstrip(), str.rstrip(), str.strip()
RECURSIVE lstrip(_)
lstrip(s) == IF s # <<>> /\ Head(s) \in Whitespace THEN lstrip(Tail(s)) ELSE s

RECURSIVE rstrip(_)
rstrip(s) ==
    IF s # <<>> /\ s[Len(s)] \in Whitespace
    THEN rstrip(SubSeq(s, 1, Len(s) - 1))
    ELSE s

strip(s) == rstrip(lstrip(s))

\* str.replace(old, new) for one-character old and new
replace(s, old, new) == [i \in 1..Len(s) |-> IF s[i] = old THEN new ELSE s[i]]

\* str.split(sep) for a one-character sep: the pieces, empty ones included
RECURSIVE SplitFrom(_, _, _)
SplitFrom(s, sep, acc) ==
    IF s = <<>> THEN <<acc>>
    ELSE IF Head(s) = sep THEN <<acc>> \o SplitFrom(Tail(s), sep, <<>>)
    ELSE SplitFrom(Tail(s), sep, Append(acc, Head(s)))

split(s, sep) == SplitFrom(s, sep, <<>>)

\* sub in s
Contains(sub, s) ==
    \E i \in 0..(Len(s) - Len(sub)) : \A k \in 1..Len(sub) : s[i + k] = sub[k]

\* the first position of character c in s, 0 when absent
FirstIndex(s, c) ==
    IF \E i \in 1..Len(s) : s[i] = c
    THEN CHOOSE i \in 1..Len(s) : s[i] = c /\ \A j \in 1..(i - 1) : s[j] # c
    ELSE 0

\* str(x) of a text cell
str(x) == IF x.t = "str" THEN x.s ELSE <<"n", "a", "n">>

(***************************************************************************)
(* count_items                                                             *)
(***************************************************************************)
Placeholders ==
    { <<>>, <<"emdash">>, <<"-">>, <<"N", "o", "n", "e">>, <<"n", "a", "n">> }

NonEmptyStripped(p) == strip(p) # <<>>

\* count_items as app.py writes it: every piece of the split counts
count_items_keep_empty(x) ==
    IF isna(x) THEN 0
    ELSE IF strip(str(x)) \in Placeholders THEN 0
    ELSE Len(split(replace(strip(str(x)), ";", ","), ","))

count_items(x) ==
    IF isna(x) THEN 0
    ELSE IF strip(str(x)) \in Placeholders THEN 0
    ELSE Len(SelectSeq(split(replace(strip(str(x)), ";", ","), ","),
                       NonEmptyStripped))

(***************************************************************************)
(* find_column                                                             *)
(***************************************************************************)
List(seq) == [t |-> "list", v |-> seq]

\* the dictionary key of a header or of a candidate: str(c).lower().strip()
Key(c) == strip(lower(c))

\* col_map = {str(c).lower().strip(): c for c in df.columns}: a later column
\* with the same key replaces an earlier one.  keys[i] is Key(cols[i]).
col_map(cols, keys) ==
    [ k \in {keys[i] : i \in 1..Len(cols)} |->
        cols[CHOOSE i \in 1..Len(cols) :
                 /\ keys[i] = k
                 /\ \A j \in (i + 1)..Len(cols) : keys[j] # k] ]

\* for cand in candidates: if key in col_map: return col_map[key]
RECURSIVE ExactPass(_, _)
ExactPass(map, cands) ==
    IF cands = <<>> THEN None
    ELSE IF Key(Head(cands)) \in DOMAIN map THEN Str(map[Key(Head(cands))])
    ELSE ExactPass(map, Tail(cands))

\* for col in df.columns: if key in str(col).lower(): return col
\* lowered[j] is str(cols[j]).lower(); the scan is at column j
RECURSIVE ScanColumns(_, _, _, _)
ScanColumns(key, cols, lowered, j) ==
    IF j > Len(cols) THEN None
    ELSE IF Contains(key, lowered[j]) THEN Str(cols[j])
    ELSE ScanColumns(key, cols, lowered, j + 1)

\* for cand in candidates: the inner scan of the columns
RECURSIVE PartialPass(_, _, _)
PartialPass(cols, lowered, cands) ==
    IF cands = <<>> THEN None
    ELSE LET col == ScanColumns(Key(Head(cands)), cols, lowered, 1)
         IN  IF col # None THEN col ELSE PartialPass(cols, lowered, Tail(cands))

\* one loop over the candidates, each tried exactly and then as a substring
RECURSIVE SinglePass(_, _, _, _)
SinglePass(map, cols, lowered, cands) ==
    IF cands = <<>> THEN None
    ELSE IF Key(Head(cands)) \in DOMAIN map THEN Str(map[Key(Head(cands))])
    ELSE LET col == ScanColumns(Key(Head(cands)), cols, lowered, 1)
         IN  IF col # None THEN col
             ELSE SinglePass(map, cols, lowered, Tail(cands))

find_column_single_pass(frame_columns, cands) ==
    IF frame_columns = None THEN None
    ELSE LET cols == frame_columns.v
             lowered == [j \in 1..Len(cols) |-> lower(cols[j])]
             keys == [j \in 1..Len(cols) |-> strip(lowered[j])]
         IN  SinglePass(col_map(cols, keys), cols, lowered, cands)

find_column(frame_columns, cands) ==
    IF frame_columns = None THEN None
    ELSE LET cols == frame_columns.v
             lowered == [j \in 1..Len(cols) |-> lower(cols[j])]
             keys == [j \in 1..Len(cols) |-> strip(lowered[j])]
             exact == ExactPass(col_map(cols, keys), cands)
         IN  IF exact # None THEN exact
             ELSE PartialPass(cols, lowered, cands)

(***************************************************************************)
(* Arguments of count_items: a missing value, or a text made of at most    *)
(* MaxPieces pieces, or one of the documented examples.                    *)
(***************************************************************************)
Pieces ==
    { <<"A">>, <<"B">>, <<" ">>, <<",">>, <<";">>, <<"-">>, <<"emdash">>,
      <<"N", "o", "n", "e">>, <<"n", "a", "n">> }

RECURSIVE PieceTexts(_)
PieceTexts(n) ==
    IF n = 0 THEN {<<>>}
    ELSE PieceTexts(n - 1) \cup {s \o p : s \in PieceTexts(n - 1), p \in Pieces}

ExampleTexts ==
    { <<"A", ",", " ", "B", ",", " ", "C">>,     \* "A, B, C"
      <<"A", ";", " ", "B">>,                    \* "A; B"
      <<"A", ",", ",", "B">> }                   \* "A,,B"

CountArguments ==
    {NaN, None} \cup {Str(s) : s \in PieceTexts(MaxPieces) \cup ExampleTexts}

InitCount ==
    /\ pc = "count_call"
    /\ text \in CountArguments
    /\ count = None
    /\ columns = None /\ candidates = None /\ found = None
    /\ shortlist_df = None /\ winners_df = None /\ df = None /\ detected = None
    /\ top5_only = None /\ scored = None /\ indexer = None /\ df_sorted = None
    /\ raised = None /\ page = None

CountItems ==
    /\ pc = "count_call"
    /\ count' = Num(count_items(text))
    /\ pc' = "count_return"
    /\ UNCHANGED <<text, columns, candidates, found, shortlist_df, winners_df, df,
                   detected, top5_only, scored, indexer, df_sorted, raised, page>>

NextCount == CountItems

SpecCount == InitCount /\ [][NextCount]_vars

(***************************************************************************)
(* C4.  count_items returns 0 for a missing cell and for a cell that,      *)
(* trimmed, is one of the placeholders (empty, a lone em dash, a lone      *)
(* hyphen, "None", "nan"); otherwise it returns the number of non-empty    *)
(* trimmed tokens between commas and semicolons.  The result is an integer *)
(* >= 0 and the call always returns.  A token is counted at its first      *)
(* character: a character that is neither a separator nor a blank, with    *)
(* only blanks between it and the separator (or the start) before it.      *)
(***************************************************************************)
C4_TokenStarts(s) ==
    { i \in 1..Len(s) :
        /\ s[i] \notin {",", ";", " "}
        /\ \A j \in 1..(i - 1) :
              (\A k \in j..(i - 1) : s[k] \notin {",", ";"}) => s[j] = " " }

C4_IsPlaceholder(x) ==
    \/ x.t # "str"
    \/ \A i \in 1..Len(x.s) : x.s[i] = " "
    \/ \E c \in {<<"emdash">>, <<"-">>, <<"N", "o", "n", "e">>, <<"n", "a", "n">>} :
          \E a, b \in 0..Len(x.s) :
              /\ a + Len(c) + b = Len(x.s)
              /\ SubSeq(x.s, a + 1, a + Len(c)) = c
              /\ \A i \in (1..a) \cup ((a + Len(c) + 1)..Len(x.s)) : x.s[i] = " "

C4_CountItems ==
    /\ pc = "count_call" => ENABLED CountItems
    /\ pc = "count_return" =>
          /\ count.t = "num"
          /\ count.n \in Nat
          /\ count.n = IF C4_IsPlaceholder(text) THEN 0
                       ELSE Cardinality(C4_TokenStarts(text.s))

C4_Witness ==
    /\ pc = "count_return"
    /\ text = Str(<<"A", ",", ",", "B">>)
    /\ count = Num(2)

(***************************************************************************)
(* Arguments of find_column: at most MaxColumns headers and at most        *)
(* MaxCandidates candidate names, with upper case, padding, and names that *)
(* contain other names.                                                    *)
(***************************************************************************)
HeaderPool ==
    { <<"A", "b">>,                  \* "Ab"
      <<"a", "b">>,                  \* "ab"
      <<"a", "b", " ">>,             \* "ab "
      <<"x", "A", "B", "y">>,        \* "xABy"
      <<"b">>,                       \* "b"
      <<"c", "B">> }                 \* "cB"

CandidatePool ==
    { <<"a", "b">>,                  \* "ab"
      <<"A", "B", " ">>,             \* "AB "
      <<"B">>,                       \* "B"
      <<"b", "y">>,                  \* "by"
      <<"z">>,                       \* "z"
      <<" ", "c">> }                 \* " c"

RECURSIVE SeqsUpTo(_, _)
SeqsUpTo(S, n) ==
    IF n = 0 THEN {<<>>}
    ELSE SeqsUpTo(S, n - 1) \cup {Append(q, x) : q \in SeqsUpTo(S, n - 1), x \in S}

InitFind ==
    /\ pc = "find_call"
    /\ columns \in {None} \cup {List(q) : q \in SeqsUpTo(HeaderPool, MaxColumns)}
    /\ candidates \in SeqsUpTo(CandidatePool, MaxCandidates)
    /\ found = NaN
    /\ text = None /\ count = None
    /\ shortlist_df = None /\ winners_df = None /\ df = None /\ detected = None
    /\ top5_only = None /\ scored = None /\ indexer = None /\ df_sorted = None
    /\ raised = None /\ page = None

FindColumn ==
    /\ pc = "find_call"
    /\ found' = find_column(columns, candidates)
    /\ pc' = "find_return"
    /\ UNCHANGED <<text, count, columns, candidates, shortlist_df, winners_df, df,
                   detected, top5_only, scored, indexer, df_sorted, raised, page>>

NextFind == FindColumn

SpecFind == InitFind /\ [][NextFind]_vars

(***************************************************************************)
(* C2.  find_column is two-pass with candidate priority.  If a candidate  *)
(* equals a header after lower-casing and trimming, the header matched by  *)
(* the earliest such candidate is returned, whatever the header order and  *)
(* whatever an earlier candidate matches as a substring.  Only otherwise   *)
(* the earliest candidate that is a substring of some header decides, and  *)
(* the first such header in header order is returned.  With no match the   *)
(* result is None; the call returns None or a header in every case.        *)
(*                                                                         *)
(* C2_AsClaimed reads "is a case-insensitive substring" as the claim       *)
(* writes it: the candidate lower-cased.  C2_FindColumn is the amended     *)
(* claim: the candidate lower-cased and trimmed, as in the first pass.     *)
(***************************************************************************)
C2_Decision(cols, keys, subs) ==
    LET Exact(i) == \E j \in 1..Len(cols) : strip(cols[j]) = keys[i]
        Within(i, j) == Contains(subs[i], cols[j])
        Partial(i) == \E j \in 1..Len(cols) : Within(i, j)
    IN  IF \E i \in 1..Len(keys) : Exact(i)
        THEN \E i \in 1..Len(keys), j \in 1..Len(cols) :
                /\ Exact(i) /\ \A k \in 1..(i - 1) : ~Exact(k)
                /\ strip(cols[j]) = keys[i]
                /\ found = Str(columns.v[j])
        ELSE IF \E i \in 1..Len(subs) : Partial(i)
        THEN \E i \in 1..Len(subs), j \in 1..Len(cols) :
                /\ Partial(i) /\ \A k \in 1..(i - 1) : ~Partial(k)
                /\ Within(i, j) /\ \A k \in 1..(j - 1) : ~Within(i, k)
                /\ found = Str(columns.v[j])
        ELSE found = None

C2_AsClaimed ==
    /\ pc = "find_return" => found = None \/ found.t = "str"
    /\ (pc = "find_return" /\ columns # None) =>
          C2_Decision([j \in 1..Len(columns.v) |-> lower(columns.v[j])],
                      [i \in 1..Len(candidates) |-> strip(lower(candidates[i]))],
                      [i \in 1..Len(candidates) |-> lower(candidates[i])])

C2_FindColumn ==
    /\ pc = "find_return" => found = None \/ found.t = "str"
    /\ (pc = "find_return" /\ columns # None) =>
          C2_Decision([j \in 1..Len(columns.v) |-> lower(columns.v[j])],
                      [i \in 1..Len(candidates) |-> strip(lower(candidates[i]))],
                      [i \in 1..Len(candidates) |-> strip(lower(candidates[i]))])

\* an earlier candidate ("by") is only a substring of a header, a later one
\* ("AB ") equals the second header after lower-casing and trimming
C2_Witness ==
    /\ pc = "find_return"
    /\ columns = List(<< <<"x", "A", "B", "y">>, <<"a", "b", " ">> >>)
    /\ candidates = << <<"b", "y">>, <<"A", "B", " ">> >>
    /\ found = Str(<<"a", "b", " ">>)

(***************************************************************************)
(* DataFrame: the column names in order, the index labels and the rows,    *)
(* each row a function from column name to value.                          *)
(***************************************************************************)
Frame(cols, idx, rows) == [t |-> "frame", columns |-> cols, index |-> idx, rows |-> rows]

\* name in df.columns
HasColumn(frame, name) == \E i \in 1..Len(frame.columns) : frame.columns[i] = name

\* df[name]
Column(frame, name) == [i \in 1..Len(frame.rows) |-> frame.rows[i][name]]

\* a scalar assigned to a column is repeated on every row
Broadcast(frame, v) == [i \in 1..Len(frame.rows) |-> v]

\* df[name] = values: the column is replaced, or added after the others
Assign(frame, name, values) ==
    [frame EXCEPT
        !.columns = IF HasColumn(frame, name) THEN @ ELSE Append(@, name),
        !.rows = [i \in 1..Len(frame.rows) |->
                    [c \in (DOMAIN frame.rows[i]) \cup {name} |->
                        IF c = name THEN values[i] ELSE frame.rows[i][c]]]]

\* df.columns = df.columns.astype(str).str.strip()
StripColumns(frame) ==
    [frame EXCEPT
        !.columns = [i \in 1..Len(frame.columns) |-> strip(frame.columns[i])],
        !.rows = [i \in 1..Len(frame.rows) |->
                    [c \in {strip(k) : k \in DOMAIN frame.rows[i]} |->
                        frame.rows[i][CHOOSE k \in DOMAIN frame.rows[i] : strip(k) = c]]]]

(***************************************************************************)
(* pd.to_numeric(errors='coerce') on a cell.  A text of digits with at     *)
(* most one decimal point is read as a fixed-point number; any other text  *)
(* is coerced to NaN.  (Signs, exponents and "inf" are outside the texts   *)
(* the model feeds it.)                                                    *)
(***************************************************************************)
Digits == <<"0", "1", "2", "3", "4", "5", "6", "7", "8", "9">>

IsDigit(c) == \E i \in DOMAIN Digits : Digits[i] = c

DigitValue(c) == (CHOOSE i \in DOMAIN Digits : Digits[i] = c) - 1

RECURSIVE DecimalValue(_)
DecimalValue(s) ==
    IF s = <<>> THEN 0
    ELSE 10 * DecimalValue(SubSeq(s, 1, Len(s) - 1)) + DigitValue(s[Len(s)])

RECURSIVE Pow10(_)
Pow10(n) == IF n = 0 THEN 1 ELSE 10 * Pow10(n - 1)

\* one unit, 1.0, in fixed point
Scale == Pow10(DecimalPlaces)

to_numeric(v) ==
    IF v.t = "num" THEN v
    ELSE IF v.t # "str" THEN NaN
    ELSE LET dot == FirstIndex(v.s, ".")
             whole == IF dot = 0 THEN v.s ELSE SubSeq(v.s, 1, dot - 1)
             frac == IF dot = 0 THEN <<>> ELSE SubSeq(v.s, dot + 1, Len(v.s))
         IN  IF /\ Len(whole) + Len(frac) > 0
                /\ \A i \in 1..Len(whole) : IsDigit(whole[i])
                /\ \A i \in 1..Len(frac) : IsDigit(frac[i])
             THEN Num(DecimalValue(whole) * Scale
                      + DecimalValue([i \in 1..DecimalPlaces |->
                                        IF i <= Len(frac) THEN frac[i] ELSE "0"]))
             ELSE NaN

(***************************************************************************)
(* load_and_prepare                                                        *)
(***************************************************************************)
\* line 59
avg_candidates ==
    << <<"A", "v", "g", ".", " ", "R", "a", "t", "i", "n", "g">>,
       <<"A", "v", "e", "r", "a", "g", "e", " ", "R", "a", "t", "i", "n",
       "g">>,
       <<"A", "v", "g", " ", "R", "a", "t", "i", "n", "g">>,
       <<"A", "v", "g", "_", "R", "a", "t", "i", "n", "g">>,
       <<"A", "v", "g", " ", "R", "a", "t", "i", "n", "g", " ", "(", "2",
       "0", "2", "4", "endash", "2", "5", ")">>,
       <<"R", "a", "t", "i", "n", "g">> >>

\* lines 60-63
trophies_candidates ==
    << <<"M", "a", "j", "o", "r", " ", "C", "l", "u", "b", " ", "T", "r",
       "o", "p", "h", "i", "e", "s">>,
       <<"M", "a", "j", "o", "r", " ", "T", "r", "o", "p", "h", "i", "e",
       "s", " ", "(", "2", "0", "2", "4", "endash", "2", "5", ")">>,
       <<"M", "a", "j", "o", "r", " ", "T", "r", "o", "p", "h", "i", "e",
       "s">>,
       <<"M", "a", "j", "o", "r", " ", "C", "l", "u", "b", " ", "T", "r",
       "o", "p", "h", "i", "e", "s", " ", "(", "2", "0", "2", "4", "endash",
       "2", "5", ")">>,
       <<"T", "r", "o", "p", "h", "i", "e", "s">>,
       <<"M", "a", "j", "o", "r", " ", "t", "r", "o", "p", "h", "i", "e",
       "s">> >>

\* lines 64-67
awards_candidates ==
    << <<"I", "n", "d", "i", "v", "i", "d", "u", "a", "l", " ", "A", "w",
       "a", "r", "d", "s">>,
       <<"I", "n", "d", "i", "v", "i", "d", "u", "a", "l", " ", "A", "w",
       "a", "r", "d", "s", " ", "(", "2", "0", "2", "4", "endash", "2", "5",
       ")">>,
       <<"I", "n", "d", "i", "v", "i", "d", "u", "a", "l", " ", "a", "w",
       "a", "r", "d", "s">>,
       <<"I", "n", "d", "i", "v", "i", "d", "u", "a", "l", "_", "A", "w",
       "a", "r", "d", "s">>,
       <<"A", "w", "a", "r", "d", "s">>,
       <<"I", "n", "d", "i", "v", "i", "d", "u", "a", "l", " ", "a", "w",
       "a", "r", "d", "s", " ", "(", "2", "0", "2", "4", "endash", "2", "5",
       ")">> >>

\* line 68
club_candidates ==
    << <<"C", "l", "u", "b">>,
       <<"T", "e", "a", "m">>,
       <<"C", "l", "u", "b", " ", "(", "l", "e", "a", "g", "u", "e", ")">>,
       <<"C", "l", "u", "b", " ", "(", "t", "e", "a", "m", ")">> >>

\* line 69 and line 196
player_candidates ==
    << <<"P", "l", "a", "y", "e", "r">>,
       <<"N", "a", "m", "e">>,
       <<"F", "u", "l", "l", " ", "n", "a", "m", "e">>,
       <<"F", "u", "l", "l", " ", "N", "a", "m", "e">>,
       <<"P", "l", "a", "y", "e", "r", " ", "N", "a", "m", "e">>,
       <<"p", "l", "a", "y", "e", "r">>,
       <<"n", "a", "m", "e">> >>

\* line 203
index_club_candidates ==
    << <<"C", "l", "u", "b">>,
       <<"T", "e", "a", "m">>,
       <<"C", "l", "u", "b", " ", "(", "l", "e", "a", "g", "u", "e", ")">>,
       <<"c", "l", "u", "b">>,
       <<"t", "e", "a", "m">> >>

\* line 171
top_5_leagues ==
    << <<"P", "r", "e", "m", "i", "e", "r", " ", "L", "e", "a", "g", "u",
       "e">>,
       <<"L", "a", " ", "L", "i", "g", "a">>,
       <<"S", "e", "r", "i", "e", " ", "A">>,
       <<"B", "u", "n", "d", "e", "s", "l", "i", "g", "a">>,
       <<"L", "i", "g", "u", "e", " ", "1">> >>

PlayerName ==
    <<"P", "l", "a", "y", "e", "r">>

ClubName ==
    <<"C", "l", "u", "b">>

LeagueName ==
    <<"L", "e", "a", "g", "u", "e">>

AvgRatingName ==
    <<"A", "v", "g", "_", "R", "a", "t", "i", "n", "g">>

NumTrophiesName ==
    <<"N", "u", "m", "_", "T", "r", "o", "p", "h", "i", "e", "s">>

NumAwardsName ==
    <<"N", "u", "m", "_", "A", "w", "a", "r", "d", "s">>

AvgRatingFilledName ==
    <<"A", "v", "g", "_", "R", "a", "t", "i", "n", "g", "_", "f", "i", "l",
    "l", "e", "d">>

FinalScoreName ==
    <<"F", "i", "n", "a", "l", "_", "S", "c", "o", "r", "e">>

\* Series.astype(str) on a cell.  A missing value becomes the text "nan" up
\* to pandas 2; from pandas 3 on it stays missing.  keeps_na says which.
astype_str(v, keeps_na) ==
    IF v.t = "str" THEN v
    ELSE IF keeps_na THEN NaN
    ELSE Str(<<"n", "a", "n">>)

\* Series.str.extract(r'\((.*?)\)') on a cell: what stands between the first
\* "(" and the first ")" after it; NaN when the text has no such pair
extract_parenthetical(v) ==
    IF v.t # "str" THEN NaN
    ELSE LET open == FirstIndex(v.s, "(")
             rest == SubSeq(v.s, open + 1, Len(v.s))
             close == FirstIndex(rest, ")")
         IN  IF open = 0 \/ close = 0 THEN NaN
             ELSE Str(SubSeq(rest, 1, close - 1))

\* Series.str.split(',').str[0].str.strip() on a cell
first_before_comma(v) ==
    IF v.t # "str" THEN NaN ELSE Str(strip(split(v.s, ",")[1]))

\* lines 146-147 on one cell of the club column
league_of(club, keeps_na) ==
    first_before_comma(
        astype_str(extract_parenthetical(astype_str(club, keeps_na)), keeps_na))

Table(name) == [t |-> "table", name |-> name]

\* lines 91-98
WithPlayerFromFirstColumn(frame, player_col_short, player_col_win) ==
    IF player_col_short # None
    THEN IF player_col_short.s # PlayerName
         THEN Assign(frame, PlayerName, Column(frame, player_col_short.s))
         ELSE frame
    ELSE Assign(frame, PlayerName, Column(frame, frame.columns[1]))

WithPlayer(frame, player_col_short, player_col_win) ==
    IF player_col_short # None
    THEN IF player_col_short.s # PlayerName
         THEN Assign(frame, PlayerName, Column(frame, player_col_short.s))
         ELSE frame
    ELSE IF player_col_win # None
    THEN Assign(frame, PlayerName, Broadcast(frame, NaN))
    ELSE Assign(frame, PlayerName, Broadcast(frame, NaN))

\* lines 101-106 with 0 for the rating of a table without a rating column
WithAvgRatingZero(frame, avg_col_short) ==
    IF avg_col_short # None
    THEN Assign(frame, AvgRatingName,
                [i \in 1..Len(frame.rows) |-> to_numeric(frame.rows[i][avg_col_short.s])])
    ELSE Assign(frame, AvgRatingName, Broadcast(frame, Num(0)))

\* lines 101-106
WithAvgRating(frame, avg_col_short) ==
    IF avg_col_short # None
    THEN Assign(frame, AvgRatingName,
                [i \in 1..Len(frame.rows) |-> to_numeric(frame.rows[i][avg_col_short.s])])
    ELSE Assign(frame, AvgRatingName, Broadcast(frame, NaN))

\* lines 111-116 and 120-125
WithCount(frame, name, col_short) ==
    IF col_short # None
    THEN Assign(frame, name,
                [i \in 1..Len(frame.rows) |-> Num(count_items(frame.rows[i][col_short.s]))])
    ELSE Assign(frame, name, Broadcast(frame, Num(0)))

\* lines 130-140
WithClub(frame, club_col_short, club_col_win) ==
    IF club_col_short # None
    THEN IF club_col_short.s # ClubName
         THEN Assign(frame, ClubName, Column(frame, club_col_short.s))
         ELSE frame
    ELSE IF club_col_win # None
    THEN Assign(frame, ClubName, Broadcast(frame, NaN))
    ELSE Assign(frame, ClubName, Broadcast(frame, NaN))

\* lines 145-149
WithLeague(frame, club_col_short, keeps_na) ==
    IF club_col_short # None /\ HasColumn(frame, club_col_short.s)
    THEN Assign(frame, LeagueName,
                [i \in 1..Len(frame.rows) |->
                    league_of(frame.rows[i][club_col_short.s], keeps_na)])
    ELSE Assign(frame, LeagueName, Broadcast(frame, NaN))

\* the source and the column recorded for a feature, with no look at the
\* winners table
DetectionShortlistOnly(col_short, col_win) ==
    [ used_on |-> IF col_short # None THEN Table("shortlist") ELSE None,
      column |-> col_short ]

\* lines 103-108, 113-118, 122-127 and 133-142: the source and the column
\* recorded for a feature
Detection(col_short, col_win) ==
    [ used_on |-> IF col_short # None THEN Table("shortlist")
                  ELSE IF col_win # None THEN Table("winners")
                  ELSE None,
      column |-> IF col_short # None THEN col_short ELSE col_win ]

\* lines 54-85: the headers are trimmed and the columns looked up
find_columns(shortlist, winners) ==
    LET s == StripColumns(shortlist)
        w == StripColumns(winners)
    IN  [ shortlist_df |-> s,
          winners_df |-> w,
          avg_col_short |-> find_column(List(s.columns), avg_candidates),
          avg_col_win |-> find_column(List(w.columns), avg_candidates),
          trophies_col_short |-> find_column(List(s.columns), trophies_candidates),
          trophies_col_win |-> find_column(List(w.columns), trophies_candidates),
          awards_col_short |-> find_column(List(s.columns), awards_candidates),
          awards_col_win |-> find_column(List(w.columns), awards_candidates),
          club_col_short |-> find_column(List(s.columns), club_candidates),
          club_col_win |-> find_column(List(w.columns), club_candidates),
          player_col_short |-> find_column(List(s.columns), player_candidates),
          player_col_win |-> find_column(List(w.columns), player_candidates) ]

\* lines 87-161: the derived columns and the mapping, from the columns found
load_and_prepare(f, keeps_na) ==
    LET d1 == WithPlayer(f.shortlist_df, f.player_col_short, f.player_col_win)
        d2 == WithAvgRating(d1, f.avg_col_short)
        d3 == WithCount(d2, NumTrophiesName, f.trophies_col_short)
        d4 == WithCount(d3, NumAwardsName, f.awards_col_short)
        d5 == WithClub(d4, f.club_col_short, f.club_col_win)
        d6 == WithLeague(d5, f.club_col_short, keeps_na)
    IN  [ winners_df |-> f.winners_df,
          df |-> d6,
          detected |->
            [ avg |-> Detection(f.avg_col_short, f.avg_col_win),
              trophies |-> Detection(f.trophies_col_short, f.trophies_col_win),
              awards |-> Detection(f.awards_col_short, f.awards_col_win),
              club |-> Detection(f.club_col_short, f.club_col_win),
              player |-> [ shortlist_column |-> f.player_col_short,
                           winners_column |-> f.player_col_win ],
              shortlist_columns |-> f.shortlist_df.columns,
              winners_columns |-> f.winners_df.columns ] ]

(***************************************************************************)
(* compute_scores                                                          *)
(***************************************************************************)
\* TROPHY_BONUS = 2.0 and AWARDS_BONUS = 1.5, in fixed point
TROPHY_BONUS == 2 * Scale
AWARDS_BONUS == (15 * Scale) \div 10

\* the rows at the positions kept, with their index labels
Take(frame, kept) ==
    [frame EXCEPT !.index = [i \in 1..Len(kept) |-> frame.index[kept[i]]],
                  !.rows = [i \in 1..Len(kept) |-> frame.rows[kept[i]]]]

\* the positions 1..n whose row satisfies the mask, in order
RECURSIVE Positions(_, _)
Positions(mask, n) ==
    IF n = 0 THEN <<>>
    ELSE IF mask[n] THEN Append(Positions(mask, n - 1), n)
    ELSE Positions(mask, n - 1)

\* lines 170-172
Filtered(frame, flag) ==
    IF flag /\ HasColumn(frame, LeagueName)
    THEN Take(frame,
              Positions([i \in 1..Len(frame.rows) |->
                            \E k \in 1..Len(top_5_leagues) :
                                frame.rows[i][LeagueName] = Str(top_5_leagues[k])],
                        Len(frame.rows)))
    ELSE frame

\* Series.fillna(0) on a cell
fillna0(v) == IF isna(v) THEN Num(0) ELSE v

\* line 175 with the two bonuses taken for each other
WithFinalScoreSwapped(frame) ==
    Assign(Assign(frame, AvgRatingFilledName,
                  [i \in 1..Len(frame.rows) |-> fillna0(frame.rows[i][AvgRatingName])]),
           FinalScoreName,
           [i \in 1..Len(frame.rows) |->
               Num(fillna0(frame.rows[i][AvgRatingName]).n
                   + frame.rows[i][NumTrophiesName].n * AWARDS_BONUS
                   + frame.rows[i][NumAwardsName].n * TROPHY_BONUS)])

\* lines 174-175
WithFinalScore(frame) ==
    Assign(Assign(frame, AvgRatingFilledName,
                  [i \in 1..Len(frame.rows) |-> fillna0(frame.rows[i][AvgRatingName])]),
           FinalScoreName,
           [i \in 1..Len(frame.rows) |->
               Num(fillna0(frame.rows[i][AvgRatingName]).n
                   + frame.rows[i][NumTrophiesName].n * TROPHY_BONUS
                   + frame.rows[i][NumAwardsName].n * AWARDS_BONUS)])

\* .replace(0, np.nan).notna() on a cell
NonZero(v) == ~isna(v) /\ v # Num(0)

\* the mask with the rating column left out
usable_mask_counts_only(frame) ==
    [i \in 1..Len(frame.rows) |->
        \/ NonZero(frame.rows[i][NumTrophiesName])
        \/ NonZero(frame.rows[i][NumAwardsName])]

\* line 178
usable_mask(frame) ==
    [i \in 1..Len(frame.rows) |->
        \/ NonZero(frame.rows[i][AvgRatingName])
        \/ NonZero(frame.rows[i][NumTrophiesName])
        \/ NonZero(frame.rows[i][NumAwardsName])]

\* line 179: usable_mask.sum() == 0
NoneUsable(frame) == \A i \in 1..Len(frame.rows) : ~usable_mask(frame)[i]

\* line 182, sort_values(by='Final_Score', ascending=False): kind is left at
\* its default, 'quicksort', which is not a stable sort, so rows with equal
\* Final_Score come out in any order: every permutation of the positions
\* along which Final_Score does not increase
SortOrders(frame) ==
    { o \in [1..Len(frame.rows) -> 1..Len(frame.rows)] :
        /\ \A i, j \in 1..Len(frame.rows) : i # j => o[i] # o[j]
        /\ \A i \in 1..(Len(frame.rows) - 1) :
              frame.rows[o[i]][FinalScoreName].n >= frame.rows[o[i + 1]][FinalScoreName].n }

\* line 182, reset_index(drop=True): the rows in the order chosen, labelled anew
Reindexed(frame, order) ==
    [frame EXCEPT !.index = [i \in 1..Len(order) |-> i - 1],
                  !.rows = [i \in 1..Len(order) |-> frame.rows[order[i]]]]

(***************************************************************************)
(* index                                                                   *)
(***************************************************************************)
NoClearWinner ==
    Str(<<"N", "o", " ", "c", "l", "e", "a", "r", " ", "w", "i", "n", "n", "e", "r">>)

\* lines 196-201 and 203-208: the column is mapped to the name the template uses
Mapped(frame, name, cands) ==
    LET col == find_column(List(frame.columns), cands)
    IN  IF col # None /\ col.s # name
        THEN Assign(frame, name, Column(frame, col.s))
        ELSE IF ~HasColumn(frame, name)
        THEN Assign(frame, name, Broadcast(frame, NaN))
        ELSE frame

\* line 211
display_cols(frame) ==
    { c \in {PlayerName, ClubName, NumTrophiesName, NumAwardsName, AvgRatingName,
             FinalScoreName} : HasColumn(frame, c) }

\* line 214
predicted_winner(frame) ==
    IF HasColumn(frame, PlayerName)
       /\ ~(\A i \in 1..Len(frame.rows) : isna(frame.rows[i][PlayerName]))
    THEN frame.rows[1][PlayerName]
    ELSE NoClearWinner

\* lines 192-217
IndexPage(df_pred, mapping) ==
    IF Len(df_pred.rows) = 0
    THEN [ template |-> "error.html",
           error_message |-> [type |-> "No candidates available after filtering."] ]
    ELSE LET shown == Mapped(Mapped(df_pred, PlayerName, player_candidates),
                             ClubName, index_club_candidates)
         IN  [ template |-> "index.html",
               predictions |-> [i \in 1..Len(shown.rows) |->
                                   [c \in display_cols(shown) |-> shown.rows[i][c]]],
               predicted_winner |-> predicted_winner(shown),
               detected |-> mapping ]

(***************************************************************************)
(* The tables the run reads.  The shortlist has a Rank column and any      *)
(* subset of the five logical columns, under headers that are candidate    *)
(* names or under headers that only match loosely, and at most MaxRows     *)
(* rows taken from People.  Of the winners table only the headers are      *)
(* read.                                                                   *)
(***************************************************************************)
RankHeader ==
    <<"R", "a", "n", "k">>

\* headers that are candidate names: Player, Avg. Rating, Major Trophies (2024-25), Individual Awards (2024-25), Club
ListedHeaders ==
    << <<"P", "l", "a", "y", "e", "r">>,
       <<"A", "v", "g", ".", " ", "R", "a", "t", "i", "n", "g">>,
       <<"M", "a", "j", "o", "r", " ", "T", "r", "o", "p", "h", "i", "e",
       "s", " ", "(", "2", "0", "2", "4", "endash", "2", "5", ")">>,
       <<"I", "n", "d", "i", "v", "i", "d", "u", "a", "l", " ", "A", "w",
       "a", "r", "d", "s", " ", "(", "2", "0", "2", "4", "endash", "2", "5",
       ")">>,
       <<"C", "l", "u", "b">> >>

\* headers found by another candidate, by case or as a substring: Name, Season rating, Trophies won, awards, Team
LooseHeaders ==
    << <<"N", "a", "m", "e">>,
       <<"S", "e", "a", "s", "o", "n", " ", "r", "a", "t", "i", "n", "g">>,
       <<"T", "r", "o", "p", "h", "i", "e", "s", " ", "w", "o", "n">>,
       <<"a", "w", "a", "r", "d", "s">>,
       <<"T", "e", "a", "m">> >>

\* a winners table with every logical column
WinnersFull ==
    << <<"Y", "e", "a", "r">>,
       <<"P", "l", "a", "y", "e", "r">>,
       <<"C", "l", "u", "b">>,
       <<"A", "v", "g", ".", " ", "R", "a", "t", "i", "n", "g">>,
       <<"M", "a", "j", "o", "r", " ", "C", "l", "u", "b", " ", "T", "r",
       "o", "p", "h", "i", "e", "s">>,
       <<"I", "n", "d", "i", "v", "i", "d", "u", "a", "l", " ", "A", "w",
       "a", "r", "d", "s">> >>

\* a winners table with none of them
WinnersBare ==
    << <<"Y", "e", "a", "r">>,
       <<"C", "o", "u", "n", "t", "r", "y">> >>

People ==
    << \* A | 8.5 | X, Y | (missing) | Real Madrid (La Liga, Spain)
       << Str(<<"A">>),
          Str(<<"8", ".", "5">>),
          Str(<<"X", ",", " ", "Y">>),
          NaN,
          Str(<<"R", "e", "a", "l", " ", "M", "a", "d", "r", "i", "d", " ",
          "(", "L", "a", " ", "L", "i", "g", "a", ",", " ", "S", "p", "a",
          "i", "n", ")">>) >>,
       \* B | 9.0 | (missing) | (missing) | Al Nassr
       << Str(<<"B">>),
          Str(<<"9", ".", "0">>),
          NaN,
          NaN,
          Str(<<"A", "l", " ", "N", "a", "s", "s", "r">>) >>,
       \* C | TBD | X; Y | G | PSG (Ligue 1)
       << Str(<<"C">>),
          Str(<<"T", "B", "D">>),
          Str(<<"X", ";", " ", "Y">>),
          Str(<<"G">>),
          Str(<<"P", "S", "G", " ", "(", "L", "i", "g", "u", "e", " ", "1",
          ")">>) >>,
       \* D | 0 | em dash | - | (missing)
       << Str(<<"D">>),
          Str(<<"0">>),
          Str(<<"emdash">>),
          Str(<<"-">>),
          NaN >> >>

\* the columns present, in table order
PresentColumns(present) ==
    LET Present(k) == k \in present
    IN  SelectSeq([k \in 1..Len(ListedHeaders) |-> k], Present)

ShortlistTable(headers, present, people) ==
    Frame(<<RankHeader>> \o [i \in 1..Len(PresentColumns(present)) |->
                               headers[PresentColumns(present)[i]]],
          [i \in 1..Len(people) |-> i - 1],
          [i \in 1..Len(people) |->
              [c \in {RankHeader} \cup {headers[k] : k \in present} |->
                  IF c = RankHeader THEN Str(<<Digits[i + 1]>>)
                  ELSE People[people[i]][CHOOSE k \in present : headers[k] = c]]])

ShortlistTables ==
    { ShortlistTable(headers, present, people) :
        headers \in {ListedHeaders, LooseHeaders},
        present \in SUBSET (1..Len(ListedHeaders)),
        people \in SeqsUpTo(1..Len(People), MaxRows) }

WinnersTables == { Frame(WinnersFull, <<>>, <<>>), Frame(WinnersBare, <<>>, <<>>) }

Init ==
    /\ pc = "start"
    /\ shortlist_df \in ShortlistTables
    /\ winners_df \in WinnersTables
    /\ df = None /\ detected = None
    /\ top5_only = None /\ scored = None /\ indexer = None /\ df_sorted = None
    /\ raised = None /\ page = None
    /\ text = None /\ count = None
    /\ columns = None /\ candidates = None /\ found = None

\* lines 48-52: a table cannot be read
LoadFails ==
    /\ pc = "start"
    /\ raised' = [type |-> "FileNotFoundError"]
    /\ pc' = "load_failed"
    /\ UNCHANGED <<text, count, columns, candidates, found, shortlist_df, winners_df,
                   df, detected, top5_only, scored, indexer, df_sorted, page>>

\* lines 46-161: both tables are read
LoadAndPrepare ==
    /\ pc = "start"
    /\ \E cols \in {find_columns(shortlist_df, winners_df)}, keeps_na \in BOOLEAN :
          \E prepared \in {load_and_prepare(cols, keeps_na)} :
              /\ df' = prepared.df
              /\ detected' = prepared.detected
    /\ pc' = "prepared"
    /\ UNCHANGED <<text, count, columns, candidates, found, shortlist_df, winners_df,
                   top5_only, scored, indexer, df_sorted, raised, page>>

\* lines 164-183
ComputeScores ==
    /\ pc = "prepared"
    /\ \E flag \in BOOLEAN :
          LET with_score == WithFinalScore(Filtered(df, flag))
          IN  /\ top5_only' = flag
              /\ scored' = with_score
              /\ IF NoneUsable(with_score)
                 THEN /\ raised' = [type |-> "ValueError", detected |-> detected]
                      /\ pc' = "score_failed"
                      /\ UNCHANGED <<indexer, df_sorted>>
                 ELSE /\ \E order \in SortOrders(with_score) :
                            /\ indexer' = order
                            /\ df_sorted' = Reindexed(with_score, order)
                      /\ pc' = "scored"
                      /\ UNCHANGED raised
    /\ UNCHANGED <<text, count, columns, candidates, found, shortlist_df, winners_df,
                   df, detected, page>>

\* lines 192-217: the ranking is rendered
RenderIndex ==
    /\ pc = "scored"
    /\ page' = IndexPage(df_sorted, detected)
    /\ pc' = "done"
    /\ UNCHANGED <<text, count, columns, candidates, found, shortlist_df, winners_df,
                   df, detected, top5_only, scored, indexer, df_sorted, raised>>

\* lines 218-220: the exception is rendered
RenderError ==
    /\ pc \in {"load_failed", "score_failed"}
    /\ page' = [template |-> "error.html", error_message |-> raised]
    /\ pc' = "done"
    /\ UNCHANGED <<text, count, columns, candidates, found, shortlist_df, winners_df,
                   df, detected, top5_only, scored, indexer, df_sorted, raised>>

Next ==
    \/ LoadFails
    \/ LoadAndPrepare
    \/ ComputeScores
    \/ RenderIndex
    \/ RenderError

Spec == Init /\ [][Next]_vars

(***************************************************************************)
(* What the claims read: a cell of a frame, and whether the shortlist has  *)
(* a column for a logical feature (k = 1 player, 2 rating, 3 trophies,     *)
(* 4 awards, 5 club), judged on the headers of the table itself.           *)
(***************************************************************************)
CellOf(frame, i, name) == frame.rows[i][name]

OnShortlist(k) ==
    HasColumn(shortlist_df, ListedHeaders[k]) \/ HasColumn(shortlist_df, LooseHeaders[k])

ShortlistHeader(k) ==
    IF HasColumn(shortlist_df, ListedHeaders[k]) THEN ListedHeaders[k] ELSE LooseHeaders[k]

Prepared == pc \in {"prepared", "scored", "score_failed"} \/ (pc = "done" /\ df # None)

Computed == pc \in {"scored", "score_failed"}

RatingOrZero(frame, i) ==
    IF CellOf(frame, i, AvgRatingName).t = "num"
    THEN CellOf(frame, i, AvgRatingName).n
    ELSE 0

(***************************************************************************)
(* C1.  Every row of the ranking compute_scores returns has                *)
(* Final_Score = rating_or_zero + 2.0 * Num_Trophies + 1.5 * Num_Awards,   *)
(* where rating_or_zero is the numeric rating of the row, or 0 when the    *)
(* rating is missing (no rating column, or a cell that is not a number).   *)
(* Such a row has a number for a score, and the run does not fail when     *)
(* some row has a non-zero feature.  (Both sides are doubled: 1.5 is 3/2.) *)
(***************************************************************************)
C1_FinalScore ==
    /\ pc = "scored" =>
          \A i \in 1..Len(df_sorted.rows) :
              /\ CellOf(df_sorted, i, FinalScoreName).t = "num"
              /\ 2 * CellOf(df_sorted, i, FinalScoreName).n
                   = 2 * RatingOrZero(df_sorted, i)
                     + 4 * Scale * CellOf(df_sorted, i, NumTrophiesName).n
                     + 3 * Scale * CellOf(df_sorted, i, NumAwardsName).n
    /\ Computed =>
          ((\E i \in 1..Len(scored.rows) :
               \/ RatingOrZero(scored, i) # 0
               \/ CellOf(scored, i, NumTrophiesName).n # 0
               \/ CellOf(scored, i, NumAwardsName).n # 0)
           => pc = "scored")

\* no rating column on the shortlist; a ranked row with two trophies, one
\* award and no rating scores 2 * 2.0 + 1.5 = 5.5
C1_Witness ==
    /\ pc = "scored"
    /\ ~OnShortlist(2)
    /\ \E i \in 1..Len(df_sorted.rows) :
          /\ CellOf(df_sorted, i, AvgRatingName) = NaN
          /\ CellOf(df_sorted, i, NumTrophiesName) = Num(2)
          /\ CellOf(df_sorted, i, NumAwardsName) = Num(1)
          /\ 2 * CellOf(df_sorted, i, FinalScoreName).n = 11 * Scale

(***************************************************************************)
(* C3.  The ranking is the stable descending sort of the scored rows: a    *)
(* permutation of them, Final_Score never increasing along it, and rows    *)
(* of equal Final_Score in the order they had in the input table.          *)
(***************************************************************************)
C3_StableSort ==
    pc = "scored" =>
        /\ indexer \in [1..Len(scored.rows) -> 1..Len(scored.rows)]
        /\ \A p, q \in 1..Len(scored.rows) : p # q => indexer[p] # indexer[q]
        /\ Len(df_sorted.rows) = Len(scored.rows)
        /\ \A p \in 1..Len(scored.rows) : df_sorted.rows[p] = scored.rows[indexer[p]]
        /\ \A p, q \in 1..Len(scored.rows) :
              p < q =>
                /\ CellOf(df_sorted, p, FinalScoreName).n
                     >= CellOf(df_sorted, q, FinalScoreName).n
                /\ CellOf(df_sorted, p, FinalScoreName) = CellOf(df_sorted, q, FinalScoreName)
                     => scored.index[indexer[p]] < scored.index[indexer[q]]

(***************************************************************************)
(* C5.  compute_scores raises, and returns no ranking, exactly when no     *)
(* row left by the league filter has a signal: every rating missing or 0,  *)
(* every trophy count 0 and every award count 0.  With a non-zero rating   *)
(* or count on some row it returns a ranking.                              *)
(***************************************************************************)
C5_NoSignal(i) ==
    /\ CellOf(scored, i, AvgRatingName) \in {NaN, Num(0)}
    /\ CellOf(scored, i, NumTrophiesName) = Num(0)
    /\ CellOf(scored, i, NumAwardsName) = Num(0)

C5_FailsIffNoSignal ==
    Computed =>
        /\ pc = "score_failed" <=> \A i \in 1..Len(scored.rows) : C5_NoSignal(i)
        /\ pc = "score_failed" => raised.type = "ValueError" /\ df_sorted = None
        /\ pc = "scored" => raised = None /\ df_sorted # None
        /\ Len(scored.rows) = Cardinality(
              { i \in 1..Len(df.rows) :
                  top5_only =>
                    \E k \in 1..Len(top_5_leagues) :
                        CellOf(df, i, LeagueName) = Str(top_5_leagues[k]) })

\* rows are left, with a rating column that holds 0 or no number and with
\* trophy and award columns that hold placeholders only
C5_Witness ==
    /\ pc = "score_failed"
    /\ Len(scored.rows) > 0
    /\ OnShortlist(2) /\ OnShortlist(3) /\ OnShortlist(4)

(***************************************************************************)
(* C6.  An empty ranking is no error: when the table has no rows, or the   *)
(* filter leaves none, compute_scores returns an empty ranking without     *)
(* raising and the page reports that there is no winner; when the ranking  *)
(* has rows, the predicted winner is the player of its first row.          *)
(***************************************************************************)
C6_EmptyRanking ==
    /\ (Computed /\ Len(scored.rows) = 0) =>
          pc = "scored" /\ raised = None /\ Len(df_sorted.rows) = 0
    /\ (pc = "done" /\ scored # None /\ Len(scored.rows) = 0) =>
          \/ /\ page.template = "index.html"
             /\ page.predicted_winner = NoClearWinner
          \/ /\ page.template = "error.html"
             /\ page.error_message = [type |-> "No candidates available after filtering."]
    /\ (pc = "done" /\ df_sorted # None /\ Len(df_sorted.rows) > 0) =>
          /\ page.template = "index.html"
          /\ page.predicted_winner \in {CellOf(df_sorted, 1, PlayerName), NoClearWinner}

(***************************************************************************)
(* C7.  Once both tables are read, load_and_prepare does not fail for a    *)
(* column the shortlist lacks.  For every subset of player, rating,        *)
(* trophies, awards and club that the shortlist has, the derived table     *)
(* has all derived columns on every row, and a feature without a column    *)
(* has its neutral default: rating missing, trophy count 0, award count    *)
(* 0, club missing, league missing.                                        *)
(***************************************************************************)
C7_DerivedNames ==
    {PlayerName, AvgRatingName, NumTrophiesName, NumAwardsName, ClubName, LeagueName}

C7_NeverFailsForMissingColumns ==
    pc = "prepared" =>
          /\ raised = None
          /\ Len(df.rows) = Len(shortlist_df.rows)
          /\ \A name \in C7_DerivedNames : HasColumn(df, name)
          /\ \A i \in 1..Len(df.rows) :
                /\ C7_DerivedNames \subseteq DOMAIN df.rows[i]
                /\ CellOf(df, i, NumTrophiesName).t = "num"
                /\ CellOf(df, i, NumAwardsName).t = "num"
                /\ ~OnShortlist(2) => CellOf(df, i, AvgRatingName) = NaN
                /\ ~OnShortlist(3) => CellOf(df, i, NumTrophiesName) = Num(0)
                /\ ~OnShortlist(4) => CellOf(df, i, NumAwardsName) = Num(0)
                /\ ~OnShortlist(5) => /\ CellOf(df, i, ClubName) = NaN
                                      /\ CellOf(df, i, LeagueName) = NaN

\* a shortlist with rows and none of the five columns
C7_Witness ==
    /\ pc = "prepared"
    /\ Len(df.rows) > 0
    /\ \A k \in 1..Len(ListedHeaders) : ~OnShortlist(k)
    /\ CellOf(df, 1, AvgRatingName) = NaN
    /\ CellOf(df, 1, LeagueName) = NaN

(***************************************************************************)
(* C8.  The league of a row is the text inside the first parenthetical     *)
(* group of its club, cut at the first comma of the group and trimmed;     *)
(* with no parenthetical group in the club, or no club column, the league  *)
(* is the missing value and not a text.                                    *)
(***************************************************************************)
C8_HasGroup(club) ==
    /\ club.t = "str"
    /\ \E a, b \in 1..Len(club.s) : a < b /\ club.s[a] = "(" /\ club.s[b] = ")"

C8_Group(club) ==
    LET a == CHOOSE a \in 1..Len(club.s) :
                 club.s[a] = "(" /\ \A k \in 1..(a - 1) : club.s[k] # "("
        b == CHOOSE b \in (a + 1)..Len(club.s) :
                 club.s[b] = ")" /\ \A k \in (a + 1)..(b - 1) : club.s[k] # ")"
    IN  SubSeq(club.s, a + 1, b - 1)

C8_UpToComma(s) ==
    IF \E k \in 1..Len(s) : s[k] = ","
    THEN SubSeq(s, 1, (CHOOSE k \in 1..Len(s) :
                          s[k] = "," /\ \A h \in 1..(k - 1) : s[h] # ",") - 1)
    ELSE s

C8_League ==
    pc = "prepared" =>
        \A i \in 1..Len(df.rows) :
            IF OnShortlist(5) /\ C8_HasGroup(CellOf(shortlist_df, i, ShortlistHeader(5)))
            THEN CellOf(df, i, LeagueName)
                   = Str(strip(C8_UpToComma(
                         C8_Group(CellOf(shortlist_df, i, ShortlistHeader(5))))))
            ELSE CellOf(df, i, LeagueName) = NaN

(***************************************************************************)
(* C9.  The Player of the derived table.  With a player column on the      *)
(* shortlist, the Player of each row is the value of that column.  As      *)
(* claimed, without one the Player of each row is the value of the first   *)
(* column of the shortlist (C9_AsClaimed).  Amended: without one the       *)
(* Player of each row is the missing value; the derivation does not fail   *)
(* (C9_Player).                                                            *)
(***************************************************************************)
C9_Resolved ==
    pc = "prepared" =>
        /\ Len(df.rows) = Len(shortlist_df.rows)
        /\ OnShortlist(1) =>
              \A i \in 1..Len(df.rows) :
                  CellOf(df, i, PlayerName) = CellOf(shortlist_df, i, ShortlistHeader(1))

C9_AsClaimed ==
    /\ C9_Resolved
    /\ (pc = "prepared" /\ ~OnShortlist(1)) =>
          \A i \in 1..Len(df.rows) :
              CellOf(df, i, PlayerName) = CellOf(shortlist_df, i, shortlist_df.columns[1])

C9_Player ==
    /\ C9_Resolved
    /\ (pc = "prepared" /\ ~OnShortlist(1)) =>
          \A i \in 1..Len(df.rows) : CellOf(df, i, PlayerName) = NaN

\* no player column: the Player of a row is missing although the first
\* column, Rank, has a value
C9_Witness ==
    /\ pc = "prepared"
    /\ ~OnShortlist(1)
    /\ Len(df.rows) > 0
    /\ CellOf(df, 1, PlayerName) = NaN
    /\ CellOf(shortlist_df, 1, shortlist_df.columns[1]) # NaN

(***************************************************************************)
(* C10.  With no rating, trophies or awards column on the shortlist the    *)
(* run fails with the ValueError of compute_scores, which carries the      *)
(* column mapping.  As claimed, the mapping shows each of the three        *)
(* features as absent, no source table and no column, whatever the         *)
(* winners table holds (C10_AsClaimed).  Amended: the mapping shows a      *)
(* feature as absent only when the winners table has no column for it      *)
(* either; when it has one, the mapping names 'winners' and that column    *)
(* (C10_SchemaUnresolvable).                                               *)
(***************************************************************************)
C10_Unresolved == ~OnShortlist(2) /\ ~OnShortlist(3) /\ ~OnShortlist(4)

C10_Fails ==
    (Computed /\ C10_Unresolved) =>
        /\ pc = "score_failed"
        /\ raised.type = "ValueError"

C10_Absent(entry) == entry.used_on = None /\ entry.column = None

C10_AsClaimed ==
    /\ C10_Fails
    /\ (Computed /\ C10_Unresolved) =>
          /\ C10_Absent(raised.detected.avg)
          /\ C10_Absent(raised.detected.trophies)
          /\ C10_Absent(raised.detected.awards)

C10_Entry(entry, k) ==
    IF HasColumn(winners_df, WinnersFull[k])
    THEN entry.used_on = Table("winners") /\ entry.column = Str(WinnersFull[k])
    ELSE C10_Absent(entry)

C10_SchemaUnresolvable ==
    /\ C10_Fails
    /\ (Computed /\ C10_Unresolved) =>
          /\ C10_Entry(raised.detected.avg, 4)
          /\ C10_Entry(raised.detected.trophies, 5)
          /\ C10_Entry(raised.detected.awards, 6)

\* rows, a player and a club column but none of the three features, and a
\* winners table that has them
C10_Witness ==
    /\ pc = "score_failed"
    /\ C10_Unresolved
    /\ OnShortlist(1) /\ OnShortlist(5)
    /\ Len(scored.rows) > 0
    /\ raised.detected.avg.used_on = Table("winners")

====
